---- MODULE Spec2Model ----
(***************************************************************************)
(* Resume_RAGBOT: the text chunker (src/src/chunker.py), the analysis      *)
(* orchestrator and its LLM-response parsing (src/src/rag_chain.py), the   *)
(* index builder and retriever (src/src/vector_store.py,                   *)
(* src/src/retriever.py), the PDF text extraction (src/src/pdf_loader.py)  *)
(* and the two POST endpoints (src/src/api.py).                            *)
(*                                                                         *)
(* A Python str is a sequence of one-character strings.                    *)
(***************************************************************************)
EXTENDS Integers, Sequences, FiniteSets, TLC

VARIABLES
    \* make_chunks (chunker.py): its arguments, locals and position
    pages_text, chunk_size, chunk_overlap, i, text, start, chunks, pc,
    \* one call into rag_chain.py / vector_store.py / retriever.py:
    entry,              \* the function called
    resume_text,        \* analyze_resume's resume_text
    job_description,    \* analyze_resume's job_description, rag_ask's question
    api_key,            \* os.getenv("GOOGLE_API_KEY")
    persist_directory,  \* build_vector_store's persist_directory
    ppc,                \* the statement the call has reached
    calls,              \* the calls made so far (os.getenv, make_chunks, external), in order
    outcome,            \* "running", "returned" or "raised"
    error,              \* the exception raised
    doc_chunks,         \* the chunks handed to build_vector_store
    vectordb,           \* the FAISS index in memory
    disk,               \* the FAISS index saved under FAISS_DIR
    context,            \* the retrieved chunk texts, joined
    skills_reply,       \* the reply to the skill-extraction prompt
    ats_reply,          \* the reply to the scoring prompt
    extracted_skills,   \* _extract_skills_from_resume's result
    ats_result,         \* _evaluate_ats's result
    input_type,         \* analyze_resume_input's input_type
    resume_input,       \* analyze_resume_input's resume_input, the endpoints' upload
    skills_prompt,      \* what the skill-extraction prompt was built from
    ats_prompt,         \* what the scoring prompt was built from
    \* analysis requests running side by side:
    requests            \* each request's arguments, locals and position

chunkerVars == <<pages_text, chunk_size, chunk_overlap, i, text, start, chunks, pc>>

inputVars == <<entry, resume_text, job_description, api_key, persist_directory, input_type,
               resume_input>>

llmVars == <<context, skills_reply, ats_reply, extracted_skills, ats_result, skills_prompt,
             ats_prompt>>

callVars == <<entry, resume_text, job_description, api_key, persist_directory, ppc,
              calls, outcome, error, doc_chunks, vectordb, disk, context,
              skills_reply, ats_reply, extracted_skills, ats_result, input_type,
              resume_input, skills_prompt, ats_prompt>>

vars == <<pages_text, chunk_size, chunk_overlap, i, text, start, chunks, pc,
          entry, resume_text, job_description, api_key, persist_directory, ppc,
          calls, outcome, error, doc_chunks, vectordb, disk, context,
          skills_reply, ats_reply, extracted_skills, ats_result, input_type,
          resume_input, skills_prompt, ats_prompt, requests>>

----------------------------------------------------------------------------
(* Bounds of the model *)

\* longest page text drawn
MaxLen == 3
\* most pages in pages_text
MaxPages == 2
\* largest chunk_size / chunk_overlap drawn
MaxL == 4

\* The loop of make_chunks does not end when chunk_overlap >= chunk_size;
\* the model stops such a run once one page has given more chunks than any
\* page can give when the precondition holds (at most one per character).
MaxPageChunks == MaxLen + 1

----------------------------------------------------------------------------
(* Python str primitives *)

Min(a, b) == IF a < b THEN a ELSE b
Max(a, b) == IF a > b THEN a ELSE b

\* the characters str.strip() removes (the ASCII ones)
Whitespace == {" ", "\n", "\t", "\r"}

RECURSIVE LStrip(_)
LStrip(s) == IF s # <<>> /\ Head(s) \in Whitespace THEN LStrip(Tail(s)) ELSE s

RECURSIVE RStrip(_)
RStrip(s) ==
    IF s # <<>> /\ s[Len(s)] \in Whitespace THEN RStrip(SubSeq(s, 1, Len(s) - 1)) ELSE s

\* str.strip()
Strip(s) == RStrip(LStrip(s))

\* where a slice bound k lands in a str of length n (negative counts from the end)
SliceIndex(k, n) == IF k < 0 THEN Max(n + k, 0) ELSE Min(k, n)

\* s[lo:hi]
PySlice(s, lo, hi) == SubSeq(s, SliceIndex(lo, Len(s)) + 1, SliceIndex(hi, Len(s)))

----------------------------------------------------------------------------
(* chunker.py: make_chunks *)

SOURCE_LABEL == "Arpit_Negi_Resume.pdf"

\* mutant: the page tag is the 0-based index
DocumentZeroBasedPage(chunk_text, idx) ==
    [page_content |-> chunk_text, page |-> idx, source |-> SOURCE_LABEL]

\* Document(page_content=chunk_text, metadata={"page": i+1, "source": ...})
Document(chunk_text, idx) ==
    [page_content |-> chunk_text, page |-> idx + 1, source |-> SOURCE_LABEL]

\* text = page_text.strip()
CleanPage(page_text) == Strip(page_text)

\* mutant: while (start <= text_length)
WhileCondInclusive(st, t) == st <= Len(t)

\* while (start < text_length)
WhileCond(st, t) == st < Len(t)

\* end = start + chunk_size; chunk_text = text[start:end]
ChunkText(t, st, L) == PySlice(t, st, st + L)

\* mutant: start = chunk_size - chunk_overlap
NextStartAssigned(st, L, O) == L - O

\* start += chunk_size - chunk_overlap
NextStart(st, L, O) == st + (L - O)

\* the sliding window over one page, run to its end (it has one only when O < L)
RECURSIVE SlidingWindow(_, _, _, _, _, _)
SlidingWindow(t, st, L, O, idx, acc) ==
    IF WhileCond(st, t)
    THEN SlidingWindow(t, NextStart(st, L, O), L, O, idx,
                       Append(acc, Document(ChunkText(t, st, L), idx)))
    ELSE acc

\* the for loop over enumerate(pages_text), from index idx on
RECURSIVE ForPages(_, _, _, _, _)
ForPages(pages, idx, L, O, acc) ==
    IF idx >= Len(pages) THEN acc
    ELSE IF pages[idx + 1] = <<>> THEN ForPages(pages, idx + 1, L, O, acc)
    ELSE ForPages(pages, idx + 1, L, O,
                  SlidingWindow(CleanPage(pages[idx + 1]), 0, L, O, idx, acc))

\* make_chunks as a function of its arguments (defined when O < L)
make_chunks(pages, L, O) == ForPages(pages, 0, L, O, <<>>)

(* the same code, one step of the loops at a time *)

Alphabet == {"a", " "}

Texts == UNION {[1..n -> Alphabet] : n \in 0..MaxLen}

PageLists == UNION {[1..n -> Texts] : n \in 0..MaxPages}

\* no call into the pipeline is under way
CallIdle ==
    /\ entry = "none"
    /\ resume_text = <<>>
    /\ job_description = <<>>
    /\ api_key = "unset"
    /\ persist_directory = "None"
    /\ ppc = "idle"
    /\ calls = <<>>
    /\ outcome = "running"
    /\ error = [exc |-> "", msg |-> ""]
    /\ doc_chunks = <<>>
    /\ vectordb = [exists |-> FALSE, docs |-> <<>>]
    /\ disk = [exists |-> FALSE, docs |-> <<>>]
    /\ context = <<>>
    /\ skills_reply = [form |-> "none", body |-> <<>>, text |-> <<>>]
    /\ ats_reply = [form |-> "none", body |-> <<>>, text |-> <<>>]
    /\ extracted_skills = [t |-> "unset", v |-> <<>>]
    /\ ats_result = [t |-> "unset", v |-> <<>>]
    /\ input_type = "text"
    /\ resume_input = [type |-> "str", text |-> <<>>, empty |-> TRUE, readable |-> FALSE,
                       pages |-> <<>>]
    /\ skills_prompt = [sent |-> FALSE, context |-> <<>>, skills |-> [t |-> "unset", v |-> <<>>],
                        job_description |-> <<>>]
    /\ ats_prompt = [sent |-> FALSE, context |-> <<>>, skills |-> [t |-> "unset", v |-> <<>>],
                     job_description |-> <<>>]
    /\ requests = <<>>

\* page texts that differ in length and in leading whitespace only: what the
\* number of passes of the loops depends on
RunTexts == {t \in Texts : \A k \in 2..Len(t) : t[k] = "a"}

RunPageLists == UNION {[1..n -> RunTexts] : n \in 0..MaxPages}

\* make_chunks is called with a page list out of lists
InitMakeChunks(lists) ==
    /\ CallIdle
    /\ pages_text \in lists
    /\ chunk_size \in 1..MaxL
    /\ chunk_overlap \in 0..MaxL
    /\ i = 0
    /\ text = <<>>
    /\ start = 0
    /\ chunks = <<>>
    /\ pc = "for"

InitChunker == InitMakeChunks(PageLists)

\* for i, page_text in enumerate(pages_text): if not page_text: continue
ForSkip ==
    /\ pc = "for"
    /\ i < Len(pages_text)
    /\ pages_text[i + 1] = <<>>
    /\ i' = i + 1
    /\ UNCHANGED <<pages_text, chunk_size, chunk_overlap, text, start, chunks, pc>>
    /\ UNCHANGED <<callVars, requests>>

\* text = page_text.strip(); start = 0; text_length = len(text)
ForEnter ==
    /\ pc = "for"
    /\ i < Len(pages_text)
    /\ pages_text[i + 1] # <<>>
    /\ text' = CleanPage(pages_text[i + 1])
    /\ start' = 0
    /\ pc' = "while"
    /\ UNCHANGED <<pages_text, chunk_size, chunk_overlap, i, chunks>>
    /\ UNCHANGED <<callVars, requests>>

\* the chunks appended so far for the page at index idx
PageChunkCount(idx) == Cardinality({k \in 1..Len(chunks) : chunks[k].page = idx + 1})

\* one pass through the body of the while loop
WhileBody ==
    /\ pc = "while"
    /\ WhileCond(start, text)
    /\ PageChunkCount(i) < MaxPageChunks
    /\ chunks' = Append(chunks, Document(ChunkText(text, start, chunk_size), i))
    /\ start' = NextStart(start, chunk_size, chunk_overlap)
    /\ UNCHANGED <<pages_text, chunk_size, chunk_overlap, i, text, pc>>
    /\ UNCHANGED <<callVars, requests>>

\* the while loop ends: on to the next page
WhileExit ==
    /\ pc = "while"
    /\ ~WhileCond(start, text)
    /\ i' = i + 1
    /\ pc' = "for"
    /\ UNCHANGED <<pages_text, chunk_size, chunk_overlap, text, start, chunks>>
    /\ UNCHANGED <<callVars, requests>>

\* return chunks
Return ==
    /\ pc = "for"
    /\ i >= Len(pages_text)
    /\ pc' = "done"
    /\ UNCHANGED <<pages_text, chunk_size, chunk_overlap, i, text, start, chunks>>
    /\ UNCHANGED <<callVars, requests>>

NextChunker ==
    \/ ForSkip
    \/ ForEnter
    \/ WhileBody
    \/ WhileExit
    \/ Return

SpecChunker == InitChunker /\ [][NextChunker]_vars

\* the same steps, each taken if it stays possible (a running Python call
\* goes on), over the page lists that vary the lengths
SpecChunkerFair ==
    InitMakeChunks(RunPageLists) /\ [][NextChunker]_vars /\ WF_vars(NextChunker)

----------------------------------------------------------------------------
(* json.loads on the texts the model draws: objects with string keys,      *)
(* arrays, strings without escapes, unsigned integers and null, with JSON  *)
(* whitespace between tokens. A parsed value is [t |-> type, v |-> ...].   *)

JsonWhitespace == {" ", "\t", "\n", "\r"}

Digits == {"0", "1", "2", "3", "4", "5", "6", "7", "8", "9"}

\* raised as json.JSONDecodeError
ParseFail == [ok |-> FALSE, val |-> <<>>, next |-> 0]

ParseOk(value, p) == [ok |-> TRUE, val |-> value, next |-> p]

RECURSIVE SkipWs(_, _)
SkipWs(s, p) ==
    IF p <= Len(s) /\ s[p] \in JsonWhitespace THEN SkipWs(s, p + 1) ELSE p

\* the index of the next double quote at or after p (Len(s) + 1 when none)
RECURSIVE ClosingQuote(_, _)
ClosingQuote(s, p) ==
    IF p > Len(s) \/ s[p] = "\"" THEN p ELSE ClosingQuote(s, p + 1)

\* a string literal opening at p: no control character may stand in it
ParseString(s, p) ==
    LET q == ClosingQuote(s, p + 1)
        body == SubSeq(s, p + 1, q - 1)
    IN  IF q > Len(s) \/ \E k \in 1..Len(body) : body[k] \in {"\n", "\t", "\r"}
        THEN ParseFail
        ELSE ParseOk([t |-> "str", v |-> body], q + 1)

RECURSIVE DigitsEnd(_, _)
DigitsEnd(s, p) == IF p <= Len(s) /\ s[p] \in Digits THEN DigitsEnd(s, p + 1) ELSE p

\* an unsigned integer at p: a lone 0, or digits not led by 0
ParseNumber(s, p) ==
    LET q == IF s[p] = "0" THEN p + 1 ELSE DigitsEnd(s, p)
    IN  ParseOk([t |-> "num", v |-> SubSeq(s, p, q - 1)], q)

RECURSIVE ParseValue(_, _)
RECURSIVE ParseMembers(_, _, _)
RECURSIVE ParseElements(_, _, _)

\* the value that starts at p (whitespace before it already skipped)
ParseValue(s, p) ==
    IF p > Len(s) THEN ParseFail
    ELSE IF s[p] = "\"" THEN ParseString(s, p)
    ELSE IF s[p] = "{" THEN
        LET q == SkipWs(s, p + 1)
        IN  IF q <= Len(s) /\ s[q] = "}"
            THEN ParseOk([t |-> "obj", v |-> <<>>], q + 1)
            ELSE ParseMembers(s, q, <<>>)
    ELSE IF s[p] = "[" THEN
        LET q == SkipWs(s, p + 1)
        IN  IF q <= Len(s) /\ s[q] = "]"
            THEN ParseOk([t |-> "arr", v |-> <<>>], q + 1)
            ELSE ParseElements(s, q, <<>>)
    ELSE IF s[p] \in Digits THEN ParseNumber(s, p)
    ELSE IF SubSeq(s, p, p + 3) = <<"n", "u", "l", "l">>
        THEN ParseOk([t |-> "null", v |-> <<>>], p + 4)
    ELSE ParseFail

\* "key": value pairs from p up to the closing brace
ParseMembers(s, p, acc) ==
    IF p > Len(s) \/ s[p] # "\"" THEN ParseFail
    ELSE
        LET key == ParseString(s, p)
        IN  IF ~key.ok THEN ParseFail
            ELSE
                LET c == SkipWs(s, key.next)
                IN  IF c > Len(s) \/ s[c] # ":" THEN ParseFail
                    ELSE
                        LET val == ParseValue(s, SkipWs(s, c + 1))
                        IN  IF ~val.ok THEN ParseFail
                            ELSE
                                LET e == SkipWs(s, val.next)
                                    members == Append(acc, [k |-> key.val.v, v |-> val.val])
                                IN  IF e > Len(s) THEN ParseFail
                                    ELSE IF s[e] = "}"
                                        THEN ParseOk([t |-> "obj", v |-> members], e + 1)
                                    ELSE IF s[e] = ","
                                        THEN ParseMembers(s, SkipWs(s, e + 1), members)
                                    ELSE ParseFail

\* array elements from p up to the closing bracket
ParseElements(s, p, acc) ==
    LET val == ParseValue(s, p)
    IN  IF ~val.ok THEN ParseFail
        ELSE
            LET e == SkipWs(s, val.next)
                elements == Append(acc, val.val)
            IN  IF e > Len(s) THEN ParseFail
                ELSE IF s[e] = "]" THEN ParseOk([t |-> "arr", v |-> elements], e + 1)
                ELSE IF s[e] = "," THEN ParseElements(s, SkipWs(s, e + 1), elements)
                ELSE ParseFail

\* json.loads(s): one value, whitespace around it, nothing after it
json_loads(s) ==
    LET val == ParseValue(s, SkipWs(s, 1))
    IN  IF val.ok /\ SkipWs(s, val.next) = Len(s) + 1 THEN val ELSE ParseFail

\* dict.get(key, default) on a parsed object (the last of equal keys wins)
RECURSIVE DictGet(_, _, _)
DictGet(members, key, default) ==
    IF members = <<>> THEN default
    ELSE IF members[Len(members)].k = key THEN members[Len(members)].v
    ELSE DictGet(SubSeq(members, 1, Len(members) - 1), key, default)

----------------------------------------------------------------------------
(* rag_chain.py: cleaning and parsing an LLM response *)

StartsWith(s, prefix) == Len(s) >= Len(prefix) /\ SubSeq(s, 1, Len(prefix)) = prefix

\* the index where sep first occurs in s at or after p (0 when it does not)
RECURSIVE Find(_, _, _)
Find(s, sep, p) ==
    IF p + Len(sep) - 1 > Len(s) THEN 0
    ELSE IF SubSeq(s, p, p + Len(sep) - 1) = sep THEN p
    ELSE Find(s, sep, p + 1)

\* the backquote character U+0060 (a TLA+ string cannot hold it)
Backquote == "BACKQUOTE"

\* the markdown fence: three backquotes
FENCE == <<Backquote, Backquote, Backquote>>

JSON_TAG == <<"j", "s", "o", "n", "\n">>

\* raw_response.split(FENCE)[1] for a raw_response that starts with the fence:
\* what stands between the opening fence and the next one (or the end)
SplitSecond(raw) ==
    LET from == Len(FENCE) + 1
        close == Find(raw, FENCE, from)
    IN  IF close = 0 THEN SubSeq(raw, from, Len(raw)) ELSE SubSeq(raw, from, close - 1)

\* mutant: the language tag is left in place
DropJsonTagNever(inner) == inner

\* if raw_response.startswith("json\n"): raw_response = raw_response[5:]
DropJsonTag(inner) ==
    IF StartsWith(inner, JSON_TAG) THEN SubSeq(inner, 6, Len(inner)) ELSE inner

\* raw_response = response.content.strip(), then the markdown fence removed
CleanResponse(content) ==
    LET raw == Strip(content)
    IN  IF StartsWith(raw, FENCE) THEN DropJsonTag(SplitSecond(raw)) ELSE raw

SKILLS_KEY == <<"s", "k", "i", "l", "l", "s">>

EmptyList == [t |-> "arr", v |-> <<>>]

\* the tail of _extract_skills_from_resume: what it returns or raises for a
\* response text
SkillsResult(content) ==
    LET parsed == json_loads(CleanResponse(content))
    IN  IF ~parsed.ok THEN [outcome |-> "return", value |-> EmptyList]
        ELSE IF parsed.val.t # "obj"
            THEN [outcome |-> "AttributeError", value |-> EmptyList]
        ELSE [outcome |-> "return", value |-> DictGet(parsed.val.v, SKILLS_KEY, EmptyList)]

ERROR_KEY == <<"e", "r", "r", "o", "r">>

RAW_OUTPUT_KEY == <<"r", "a", "w", "_", "o", "u", "t", "p", "u", "t">>

\* "Invalid JSON response from LLM"
ERROR_MESSAGE ==
    <<"I", "n", "v", "a", "l", "i", "d", " ", "J", "S", "O", "N", " ",
      "r", "e", "s", "p", "o", "n", "s", "e", " ", "f", "r", "o", "m", " ", "L", "L", "M">>

\* {"error": "Invalid JSON response from LLM", "raw_output": raw_response}
ErrorObject(raw) ==
    [t |-> "obj",
     v |-> <<[k |-> ERROR_KEY, v |-> [t |-> "str", v |-> ERROR_MESSAGE]],
             [k |-> RAW_OUTPUT_KEY, v |-> [t |-> "str", v |-> raw]]>>]

\* mutant: raw_output carries response.content as received
AtsResultOriginalText(content) ==
    LET parsed == json_loads(CleanResponse(content))
    IN  IF parsed.ok THEN [outcome |-> "return", value |-> parsed.val]
        ELSE [outcome |-> "return", value |-> ErrorObject(content)]

\* the tail of _evaluate_ats: what it returns for a response text
AtsResult(content) ==
    LET raw == CleanResponse(content)
        parsed == json_loads(raw)
    IN  IF parsed.ok THEN [outcome |-> "return", value |-> parsed.val]
        ELSE [outcome |-> "return", value |-> ErrorObject(raw)]

----------------------------------------------------------------------------
(* The LLM replies the model draws: a body, bare or inside a markdown fence *)

ObjSkillsText ==    \* {"skills":["Go"]}
    <<"{", "\"", "s", "k", "i", "l", "l", "s", "\"", ":", "[", "\"", "G", "o", "\"", "]", "}">>
ObjSpacedText ==    \* {"skills": []}
    <<"{", "\"", "s", "k", "i", "l", "l", "s", "\"", ":", " ", "[", "]", "}">>
ObjNumbersText ==   \* {"skills":[1]}
    <<"{", "\"", "s", "k", "i", "l", "l", "s", "\"", ":", "[", "1", "]", "}">>
ObjScoreText ==     \* {"a":10}
    <<"{", "\"", "a", "\"", ":", "1", "0", "}">>
ObjEmptyText ==     \* {}
    <<"{", "}">>
ArrayText ==        \* ["Go"]
    <<"[", "\"", "G", "o", "\"", "]">>
NumberText ==       \* 1
    <<"1">>
NullText ==         \* null
    <<"n", "u", "l", "l">>
StringText ==       \* "Go"
    <<"\"", "G", "o", "\"">>
ProseText ==        \* Go 1
    <<"G", "o", " ", "1">>
TruncatedText ==    \* {"a":1
    <<"{", "\"", "a", "\"", ":", "1">>
EmptyText == <<>>

Bodies ==
    {ObjSkillsText, ObjSpacedText, ObjNumbersText, ObjScoreText, ObjEmptyText, ArrayText,
     NumberText, NullText, StringText, ProseText, TruncatedText, EmptyText}

Forms ==
    {"bare", "bare_padded", "fence", "fence_lines", "fence_json", "fence_json_padded",
     "fence_json_inline", "fence_json_crlf", "fence_open", "prefaced"}

\* what the reply holds before the body
ReplyHead(form) ==
    CASE form = "bare" -> <<>>
      [] form = "bare_padded" -> <<" ", "\n">>
      [] form = "fence" -> FENCE
      [] form = "fence_lines" -> FENCE \o <<"\n">>
      [] form = "fence_json" -> FENCE \o <<"j", "s", "o", "n", "\n">>
      [] form = "fence_json_padded" -> <<"\n">> \o FENCE \o <<"j", "s", "o", "n", "\n">>
      [] form = "fence_json_inline" -> FENCE \o <<"j", "s", "o", "n">>
      [] form = "fence_json_crlf" -> FENCE \o <<"j", "s", "o", "n", "\r", "\n">>
      [] form = "fence_open" -> FENCE \o <<"j", "s", "o", "n", "\n">>
      [] form = "prefaced" -> <<"G", "o", ":", "\n">> \o FENCE \o <<"j", "s", "o", "n", "\n">>

\* what the reply holds after the body
ReplyTail(form) ==
    CASE form = "bare" -> <<>>
      [] form = "bare_padded" -> <<"\n", " ">>
      [] form = "fence" -> FENCE
      [] form = "fence_lines" -> <<"\n">> \o FENCE
      [] form = "fence_json" -> <<"\n">> \o FENCE
      [] form = "fence_json_padded" -> <<"\n">> \o FENCE \o <<"\n">>
      [] form = "fence_json_inline" -> FENCE
      [] form = "fence_json_crlf" -> <<"\r", "\n">> \o FENCE
      [] form = "fence_open" -> <<>>
      [] form = "prefaced" -> <<"\n">> \o FENCE

\* response.content for a body in a form
Reply(form, body) ==
    [form |-> form, body |-> body, text |-> ReplyHead(form) \o body \o ReplyTail(form)]

Replies == {Reply(form, body) : form \in Forms, body \in Bodies}

NoReply == [form |-> "none", body |-> <<>>, text |-> <<>>]

Unset == [t |-> "unset", v |-> <<>>]

\* no prompt built yet
NoPrompt == [sent |-> FALSE, context |-> <<>>, skills |-> Unset, job_description |-> <<>>]

\* skill_extraction_prompt: built from resume_content alone
SkillsPrompt(resume_content) ==
    [sent |-> TRUE, context |-> resume_content, skills |-> Unset, job_description |-> <<>>]

\* mutant: the scoring prompt is built without the extracted skills
AtsPromptWithoutSkills(resume_content, jd, skills) ==
    [sent |-> TRUE, context |-> resume_content, skills |-> Unset, job_description |-> jd]

\* ats_prompt: built from resume_content, job_description and extracted_skills
AtsPrompt(resume_content, jd, skills) ==
    [sent |-> TRUE, context |-> resume_content, skills |-> skills, job_description |-> jd]

\* no resume_input: the entry point takes none
NoUpload == [type |-> "str", text |-> <<>>, empty |-> TRUE, readable |-> FALSE, pages |-> <<>>]

----------------------------------------------------------------------------
(* rag_chain.py, vector_store.py, retriever.py: one call, a statement at a time *)

FAISS_DIR == "data/faiss_index"

DEFAULT_CHUNK_SIZE == 500

DEFAULT_CHUNK_OVERLAP == 50

\* search_kwargs={"k": 5}
RETRIEVER_K == 5

Entries ==
    {"analyze_resume", "build_vector_store", "load_vector_store", "load_retriever",
     "build_rag_chain"}

ResumeTexts == {<<>>, <<" ", "\n">>, <<"a", "b">>, <<" ", "a", " ", "b", "\n">>}

JobDescriptions == {<<>>, <<"\n", " ">>, <<"j", "d">>, <<" ", "j", "d">>}

\* chunk lists handed to build_vector_store directly
ChunkLists ==
    {make_chunks(<<<<"a", "b">>>>, DEFAULT_CHUNK_SIZE, DEFAULT_CHUNK_OVERLAP),
     make_chunks(<<<<"a", "b">>, <<"c">>>>, DEFAULT_CHUNK_SIZE, DEFAULT_CHUNK_OVERLAP)}

NoIndex == [exists |-> FALSE, docs |-> <<>>]

\* what an earlier run may have left under FAISS_DIR
StoredIndexes == {NoIndex} \cup {[exists |-> TRUE, docs |-> c] : c \in ChunkLists}

\* mutant: analyze_resume calls build_vector_store(chunks), the directory
\* defaulting to FAISS_DIR
ArPersistDirectoryDefault == FAISS_DIR

\* analyze_resume: build_vector_store(chunks, persist_directory=None)
ArPersistDirectory == "None"

\* the first statement of each entry point
FirstStatement(e) ==
    CASE e = "analyze_resume" -> "ar_validate"
      [] e = "build_vector_store" -> "get_embedding_model"
      [] e = "load_vector_store" -> "get_embedding_model"
      [] e = "load_retriever" -> "lr_api_key"
      [] e = "build_rag_chain" -> "lr_api_key"

InitCall ==
    /\ pages_text = <<>>
    /\ chunk_size = DEFAULT_CHUNK_SIZE
    /\ chunk_overlap = DEFAULT_CHUNK_OVERLAP
    /\ i = 0
    /\ text = <<>>
    /\ start = 0
    /\ chunks = <<>>
    /\ pc = "idle"
    /\ entry \in Entries
    /\ resume_text \in (IF entry = "analyze_resume" THEN ResumeTexts ELSE {<<>>})
    /\ job_description \in
           (IF entry \in {"analyze_resume", "build_rag_chain"} THEN JobDescriptions ELSE {<<>>})
    /\ api_key \in {"unset", "empty", "set"}
    /\ persist_directory \in
           (IF entry = "analyze_resume" THEN {ArPersistDirectory}
            ELSE IF entry = "build_vector_store" THEN {FAISS_DIR, "None"}
            ELSE {FAISS_DIR})
    /\ ppc = FirstStatement(entry)
    /\ calls = <<>>
    /\ outcome = "running"
    /\ error = [exc |-> "", msg |-> ""]
    /\ doc_chunks \in (IF entry = "build_vector_store" THEN ChunkLists ELSE {<<>>})
    /\ vectordb = NoIndex
    /\ disk \in StoredIndexes
    /\ context = <<>>
    /\ skills_reply = NoReply
    /\ ats_reply = NoReply
    /\ extracted_skills = Unset
    /\ ats_result = Unset
    /\ input_type = "text"
    /\ resume_input = NoUpload
    /\ skills_prompt = NoPrompt
    /\ ats_prompt = NoPrompt
    /\ requests = <<>>

\* raise exc(msg)
Raise(exc, msg) ==
    /\ outcome' = "raised"
    /\ error' = [exc |-> exc, msg |-> msg]
    /\ ppc' = "raised"

\* go on with statement l
Goto(l) ==
    /\ ppc' = l
    /\ UNCHANGED <<outcome, error>>

\* the entry point returns
ReturnCall ==
    /\ outcome' = "returned"
    /\ ppc' = "returned"
    /\ UNCHANGED error

\* mutant: not s
BlankNoStrip(s) == s = <<>>

\* not s or not s.strip()
Blank(s) == s = <<>> \/ Strip(s) = <<>>

\* mutant: api_key is None
ApiKeyIsNone == api_key = "unset"

\* not api_key: the variable is unset or set to the empty string
ApiKeyMissing == api_key # "set"

\* analyze_resume: # Validate inputs
ArValidate ==
    /\ ppc = "ar_validate"
    /\ IF Blank(resume_text) THEN Raise("ValueError", "Resume text cannot be empty")
       ELSE IF Blank(job_description)
           THEN Raise("ValueError", "Job description cannot be empty")
       ELSE Goto("ar_api_key")
    /\ UNCHANGED <<calls, doc_chunks, vectordb, disk>>
    /\ UNCHANGED <<inputVars, llmVars, chunkerVars, requests>>

\* analyze_resume: api_key = os.getenv("GOOGLE_API_KEY"); if not api_key: raise
ArApiKey ==
    /\ ppc = "ar_api_key"
    /\ IF ApiKeyMissing THEN Raise("ValueError", "GOOGLE_API_KEY not found in environment")
       ELSE Goto("ar_make_chunks")
    /\ calls' = Append(calls, "getenv")
    /\ UNCHANGED <<doc_chunks, vectordb, disk>>
    /\ UNCHANGED <<inputVars, llmVars, chunkerVars, requests>>

\* analyze_resume: chunks = make_chunks([resume_text]), then
\* build_vector_store(chunks, persist_directory=None) is entered
ArMakeChunks ==
    /\ ppc = "ar_make_chunks"
    /\ doc_chunks' = make_chunks(<<resume_text>>, DEFAULT_CHUNK_SIZE, DEFAULT_CHUNK_OVERLAP)
    /\ calls' = Append(calls, "make_chunks")
    /\ Goto("get_embedding_model")
    /\ UNCHANGED <<vectordb, disk>>
    /\ UNCHANGED <<inputVars, llmVars, chunkerVars, requests>>

\* get_embedding_model, called first by build_vector_store and load_vector_store
GetEmbeddingModel ==
    /\ ppc = "get_embedding_model"
    /\ IF ApiKeyMissing
       THEN Raise("ValueError", "GOOGLE_API_KEY not found. Add it to your .env file.")
       ELSE IF entry = "load_vector_store" THEN Goto("load_local")
       ELSE Goto("from_documents")
    /\ calls' = Append(calls, "getenv")
    /\ UNCHANGED <<doc_chunks, vectordb, disk>>
    /\ UNCHANGED <<inputVars, llmVars, chunkerVars, requests>>

\* build_vector_store: vectordb = FAISS.from_documents(chunks, embeddings);
\* the embedding call is made once and may fail
FromDocuments ==
    /\ ppc = "from_documents"
    /\ calls' = Append(calls, "embed_documents")
    /\ \E ok \in BOOLEAN :
           IF ok
           THEN /\ vectordb' = [exists |-> TRUE, docs |-> doc_chunks]
                /\ Goto("makedirs")
           ELSE /\ Raise("ExternalError", "embedding call failed")
                /\ UNCHANGED vectordb
    /\ UNCHANGED <<doc_chunks, disk>>
    /\ UNCHANGED <<inputVars, llmVars, chunkerVars, requests>>

\* build_vector_store: os.makedirs(persist_directory, exist_ok=True)
MakeDirs ==
    /\ ppc = "makedirs"
    /\ IF persist_directory = "None"
       THEN /\ Raise("TypeError", "expected str, bytes or os.PathLike object, not NoneType")
            /\ UNCHANGED calls
       ELSE /\ calls' = Append(calls, "makedirs")
            /\ Goto("save_local")
    /\ UNCHANGED <<doc_chunks, vectordb, disk>>
    /\ UNCHANGED <<inputVars, llmVars, chunkerVars, requests>>

\* build_vector_store: vectordb.save_local(persist_directory); return vectordb
SaveLocal ==
    /\ ppc = "save_local"
    /\ disk' = vectordb
    /\ calls' = Append(calls, "save_local")
    /\ IF entry = "build_vector_store" THEN ReturnCall ELSE Goto("retrieve")
    /\ UNCHANGED <<doc_chunks, vectordb>>
    /\ UNCHANGED <<inputVars, llmVars, chunkerVars, requests>>

\* load_retriever: api_key = os.getenv("GOOGLE_API_KEY"); if not api_key: raise
LrApiKey ==
    /\ ppc = "lr_api_key"
    /\ IF ApiKeyMissing THEN Raise("ValueError", "Google_API_KEY not set in .env")
       ELSE Goto("load_local")
    /\ calls' = Append(calls, "getenv")
    /\ UNCHANGED <<doc_chunks, vectordb, disk>>
    /\ UNCHANGED <<inputVars, llmVars, chunkerVars, requests>>

\* load_vector_store / load_retriever: FAISS.load_local(...), which fails when
\* no index is saved there; load_retriever then wraps it in a retriever
LoadLocal ==
    /\ ppc = "load_local"
    /\ calls' = Append(calls, "load_local")
    /\ IF disk.exists
       THEN /\ vectordb' = disk
            /\ IF entry = "build_rag_chain" THEN Goto("brc_api_key") ELSE ReturnCall
       ELSE /\ Raise("ExternalError", "index could not be loaded")
            /\ UNCHANGED vectordb
    /\ UNCHANGED <<doc_chunks, disk>>
    /\ UNCHANGED <<inputVars, llmVars, chunkerVars, requests>>

\* build_rag_chain: after load_retriever(), its own credential check; the
\* rag_ask it returns is then called with the question
BrcApiKey ==
    /\ ppc = "brc_api_key"
    /\ IF ApiKeyMissing THEN Raise("ValueError", "GOOGLE_API_KEY not found in environment")
       ELSE Goto("retrieve")
    /\ calls' = Append(calls, "getenv")
    /\ UNCHANGED <<doc_chunks, vectordb, disk>>
    /\ UNCHANGED <<inputVars, llmVars, chunkerVars, requests>>

\* the orders in which the k nearest of docs may come back
TopK(docs, k) ==
    LET n == Min(k, Len(docs))
    IN  {[j \in 1..n |-> docs[order[j]]] :
            order \in {f \in [1..n -> 1..Len(docs)] :
                          \A a, b \in 1..n : a # b => f[a] # f[b]}}

\* "\n\n".join([d.page_content for d in docs])
RECURSIVE JoinContents(_)
JoinContents(docs) ==
    IF docs = <<>> THEN <<>>
    ELSE IF Len(docs) = 1 THEN docs[1].page_content
    ELSE docs[1].page_content \o <<"\n", "\n">> \o JoinContents(Tail(docs))

\* docs = retriever.invoke(...); context = "\n\n".join(...): the query is
\* embedded by the provider, which may fail
Retrieve ==
    /\ ppc = "retrieve"
    /\ calls' = Append(calls, "retrieve")
    /\ \E ok \in BOOLEAN :
           IF ok
           THEN /\ \E docs \in TopK(vectordb.docs, RETRIEVER_K) :
                       context' = JoinContents(docs)
                /\ Goto("extract_skills")
           ELSE /\ Raise("ExternalError", "embedding call failed")
                /\ UNCHANGED context
    /\ UNCHANGED <<doc_chunks, vectordb, disk>>
    /\ UNCHANGED <<inputVars, skills_reply, ats_reply, extracted_skills, ats_result>>
    /\ UNCHANGED <<skills_prompt, ats_prompt>>
    /\ UNCHANGED <<chunkerVars, requests>>

\* _extract_skills_from_resume(llm, context): one llm.invoke, which may fail,
\* then the reply is cleaned and parsed
ExtractSkills ==
    /\ ppc = "extract_skills"
    /\ calls' = Append(calls, "llm_skills")
    /\ skills_prompt' = SkillsPrompt(context)
    /\ \E ok \in BOOLEAN :
           IF ok
           THEN \E reply \in Replies :
                    /\ skills_reply' = reply
                    /\ IF SkillsResult(reply.text).outcome = "return"
                       THEN /\ extracted_skills' = SkillsResult(reply.text).value
                            /\ Goto("evaluate_ats")
                       ELSE /\ Raise("AttributeError", "object has no attribute 'get'")
                            /\ UNCHANGED extracted_skills
           ELSE /\ Raise("ExternalError", "LLM call failed")
                /\ UNCHANGED <<skills_reply, extracted_skills>>
    /\ UNCHANGED <<doc_chunks, vectordb, disk>>
    /\ UNCHANGED <<inputVars, context, ats_reply, ats_result, ats_prompt>>
    /\ UNCHANGED <<chunkerVars, requests>>

\* bool(value) of a parsed value
Truthy(value) ==
    CASE value.t = "null" -> FALSE
      [] value.t = "num" -> value.v # <<"0">>
      [] OTHER -> value.v # <<>>

\* ', '.join(value) succeeds: value is iterable and yields only str
Joinable(value) ==
    CASE value.t = "arr" -> \A k \in 1..Len(value.v) : value.v[k].t = "str"
      [] value.t = "str" -> TRUE
      [] value.t = "obj" -> TRUE
      [] OTHER -> FALSE

\* _evaluate_ats(llm, context, job_description, extracted_skills): the prompt
\* is built (joining the skills), one llm.invoke, which may fail, then the
\* reply is cleaned and parsed
EvaluateAts ==
    /\ ppc = "evaluate_ats"
    /\ IF Truthy(extracted_skills) /\ ~Joinable(extracted_skills)
       THEN /\ Raise("TypeError", "join: expected str instance")
            /\ UNCHANGED <<calls, ats_reply, ats_result, ats_prompt>>
       ELSE /\ calls' = Append(calls, "llm_ats")
            /\ ats_prompt' = AtsPrompt(context, job_description, extracted_skills)
            /\ \E ok \in BOOLEAN :
                   IF ok
                   THEN /\ \E reply \in Replies :
                               /\ ats_reply' = reply
                               /\ ats_result' = AtsResult(reply.text).value
                        /\ Goto("assemble")
                   ELSE /\ Raise("ExternalError", "LLM call failed")
                        /\ UNCHANGED <<ats_reply, ats_result>>
    /\ UNCHANGED <<doc_chunks, vectordb, disk>>
    /\ UNCHANGED <<inputVars, context, skills_reply, extracted_skills, skills_prompt>>
    /\ UNCHANGED <<chunkerVars, requests>>

\* return {"extracted_skills": extracted_skills, "ats_result": ats_result}
Assemble ==
    /\ ppc = "assemble"
    /\ ReturnCall
    /\ UNCHANGED <<calls, doc_chunks, vectordb, disk>>
    /\ UNCHANGED <<inputVars, llmVars, chunkerVars, requests>>

Next ==
    \/ ArValidate
    \/ ArApiKey
    \/ ArMakeChunks
    \/ GetEmbeddingModel
    \/ FromDocuments
    \/ MakeDirs
    \/ SaveLocal
    \/ LrApiKey
    \/ LoadLocal
    \/ BrcApiKey
    \/ Retrieve
    \/ ExtractSkills
    \/ EvaluateAts
    \/ Assemble

Spec == InitCall /\ [][Next]_vars

----------------------------------------------------------------------------
(* analyze_resume requests running side by side: each worker runs one call   *)
(* at a time, a statement at a time, and the workers' statements interleave; *)
(* they share the environment (api_key) and the index directory (disk).      *)

\* workers serving requests at the same time
NumWorkers == 2

Workers == 1..NumWorkers

RequestResumeTexts == {<<" ">>, <<"a", "b">>, <<"c">>}

RequestJobDescriptions == {<<>>, <<"j", "d">>}

\* a call of analyze_resume(resume, jd) at its first statement; later tells
\* whether the worker has served a request before
NewRequest(resume, jd, later) ==
    [resume_text |-> resume, job_description |-> jd, ppc |-> "ar_validate",
     error |-> [exc |-> "", msg |-> ""], chunks |-> <<>>, vectordb |-> NoIndex,
     later |-> later]

InitRequests ==
    /\ pages_text = <<>>
    /\ chunk_size = DEFAULT_CHUNK_SIZE
    /\ chunk_overlap = DEFAULT_CHUNK_OVERLAP
    /\ i = 0
    /\ text = <<>>
    /\ start = 0
    /\ chunks = <<>>
    /\ pc = "idle"
    /\ entry = "analyze_resume"
    /\ resume_text = <<>>
    /\ job_description = <<>>
    /\ api_key \in {"unset", "set"}
    /\ persist_directory = ArPersistDirectory
    /\ ppc = "idle"
    /\ calls = <<>>
    /\ outcome = "running"
    /\ error = [exc |-> "", msg |-> ""]
    /\ doc_chunks = <<>>
    /\ vectordb = NoIndex
    /\ disk \in StoredIndexes
    /\ context = <<>>
    /\ skills_reply = NoReply
    /\ ats_reply = NoReply
    /\ extracted_skills = Unset
    /\ ats_result = Unset
    /\ input_type = "text"
    /\ resume_input = NoUpload
    /\ skills_prompt = NoPrompt
    /\ ats_prompt = NoPrompt
    /\ requests \in [Workers -> {NewRequest(resume, jd, FALSE) :
                                    resume \in RequestResumeTexts,
                                    jd \in RequestJobDescriptions}]

\* worker w's call raises exc(msg)
RqRaise(w, exc, msg) ==
    requests' = [requests EXCEPT ![w].ppc = "raised", ![w].error = [exc |-> exc, msg |-> msg]]

\* worker w's call goes on with statement l
RqGoto(w, l) == requests' = [requests EXCEPT ![w].ppc = l]

\* analyze_resume: # Validate inputs
RqValidate(w) ==
    /\ requests[w].ppc = "ar_validate"
    /\ IF Blank(requests[w].resume_text)
       THEN RqRaise(w, "ValueError", "Resume text cannot be empty")
       ELSE IF Blank(requests[w].job_description)
           THEN RqRaise(w, "ValueError", "Job description cannot be empty")
       ELSE RqGoto(w, "ar_api_key")
    /\ UNCHANGED <<callVars, chunkerVars>>

\* analyze_resume: api_key = os.getenv("GOOGLE_API_KEY"); if not api_key: raise
RqApiKey(w) ==
    /\ requests[w].ppc = "ar_api_key"
    /\ IF ApiKeyMissing
       THEN RqRaise(w, "ValueError", "GOOGLE_API_KEY not found in environment")
       ELSE RqGoto(w, "ar_make_chunks")
    /\ UNCHANGED <<callVars, chunkerVars>>

\* analyze_resume: chunks = make_chunks([resume_text]), then
\* build_vector_store(chunks, persist_directory=None) is entered
RqMakeChunks(w) ==
    /\ requests[w].ppc = "ar_make_chunks"
    /\ requests' =
           [requests EXCEPT
               ![w].chunks = make_chunks(<<requests[w].resume_text>>, DEFAULT_CHUNK_SIZE,
                                         DEFAULT_CHUNK_OVERLAP),
               ![w].ppc = "get_embedding_model"]
    /\ UNCHANGED <<callVars, chunkerVars>>

\* build_vector_store: embeddings = get_embedding_model()
RqGetEmbeddingModel(w) ==
    /\ requests[w].ppc = "get_embedding_model"
    /\ IF ApiKeyMissing
       THEN RqRaise(w, "ValueError", "GOOGLE_API_KEY not found. Add it to your .env file.")
       ELSE RqGoto(w, "from_documents")
    /\ UNCHANGED <<callVars, chunkerVars>>

\* build_vector_store: vectordb = FAISS.from_documents(chunks, embeddings),
\* a local of the call; the embedding call may fail
RqFromDocuments(w) ==
    /\ requests[w].ppc = "from_documents"
    /\ \E ok \in BOOLEAN :
           IF ok
           THEN requests' =
                    [requests EXCEPT
                        ![w].vectordb = [exists |-> TRUE, docs |-> requests[w].chunks],
                        ![w].ppc = "makedirs"]
           ELSE RqRaise(w, "ExternalError", "embedding call failed")
    /\ UNCHANGED <<callVars, chunkerVars>>

\* build_vector_store: os.makedirs(persist_directory, exist_ok=True);
\* vectordb.save_local(persist_directory); return vectordb
RqPersist(w) ==
    /\ requests[w].ppc = "makedirs"
    /\ IF ArPersistDirectory = "None"
       THEN /\ RqRaise(w, "TypeError", "expected str, bytes or os.PathLike object, not NoneType")
            /\ UNCHANGED disk
       ELSE /\ disk' = requests[w].vectordb
            /\ RqGoto(w, "retrieve")
    /\ UNCHANGED <<entry, resume_text, job_description, api_key, persist_directory, ppc,
                   calls, outcome, error, doc_chunks, vectordb, context>>
    /\ UNCHANGED <<skills_reply, ats_reply, extracted_skills, ats_result, input_type,
                   resume_input, skills_prompt, ats_prompt>>
    /\ UNCHANGED chunkerVars

\* the call of worker w has ended and the worker takes its next request: a
\* new call of analyze_resume, whose locals are its own
RqNext(w) ==
    /\ requests[w].ppc = "raised"
    /\ \E resume \in RequestResumeTexts, jd \in RequestJobDescriptions :
           requests' = [requests EXCEPT ![w] = NewRequest(resume, jd, TRUE)]
    /\ UNCHANGED <<callVars, chunkerVars>>

NextRequests ==
    \E w \in Workers :
        \/ RqValidate(w)
        \/ RqApiKey(w)
        \/ RqMakeChunks(w)
        \/ RqGetEmbeddingModel(w)
        \/ RqFromDocuments(w)
        \/ RqPersist(w)
        \/ RqNext(w)

SpecRequests == InitRequests /\ [][NextRequests]_vars

----------------------------------------------------------------------------
(* pdf_loader.py: extract_text_from_pdf_bytes *)

\* a str passed as resume_input
TextInput(t) == [type |-> "str", text |-> t, empty |-> t = <<>>, readable |-> FALSE,
                 pages |-> <<>>]

\* bytes passed as resume_input or uploaded: whether there are any, whether
\* PdfReader can read them, and what page.extract_text() gives for each page
\* (<<>> where it gives None)
PdfBytes(empty, readable, pages) ==
    [type |-> "bytes", text |-> <<>>, empty |-> empty, readable |-> readable, pages |-> pages]

\* a resume_input that is neither str nor bytes
NoneInput == [type |-> "NoneType", text |-> <<>>, empty |-> TRUE, readable |-> FALSE,
              pages |-> <<>>]

Uploads ==
    {PdfBytes(TRUE, FALSE, <<>>),
     PdfBytes(FALSE, FALSE, <<>>),
     PdfBytes(FALSE, TRUE, <<>>),
     PdfBytes(FALSE, TRUE, <<<<>>, <<" ", "\n">>>>),
     PdfBytes(FALSE, TRUE, <<<<"a", "b">>>>),
     PdfBytes(FALSE, TRUE, <<<<" ", "a">>, <<>>, <<"b", "\n">>>>)}

\* the texts of the pages, stripped, the empty ones left out
RECURSIVE PagesText(_)
PagesText(pages) ==
    IF pages = <<>> THEN <<>>
    ELSE IF Strip(Head(pages)) = <<>> THEN PagesText(Tail(pages))
    ELSE <<Strip(Head(pages))>> \o PagesText(Tail(pages))

\* "\n\n".join(pages_text)
RECURSIVE JoinPages(_)
JoinPages(texts) ==
    IF texts = <<>> THEN <<>>
    ELSE IF Len(texts) = 1 THEN texts[1]
    ELSE texts[1] \o <<"\n", "\n">> \o JoinPages(Tail(texts))

\* extract_text_from_pdf_bytes(pdf_bytes): the text it returns, or the
\* message of the ValueError every failure inside it is turned into
extract_text_from_pdf_bytes(pdf_bytes) ==
    IF pdf_bytes.empty \/ ~pdf_bytes.readable
    THEN [ok |-> FALSE, text |-> <<>>,
          msg |-> "Failed to extract text from PDF: (error of PdfReader)"]
    ELSE IF pdf_bytes.pages = <<>>
    THEN [ok |-> FALSE, text |-> <<>>,
          msg |-> "Failed to extract text from PDF: PDF has no pages"]
    ELSE IF PagesText(pdf_bytes.pages) = <<>>
    THEN [ok |-> FALSE, text |-> <<>>,
          msg |-> "Failed to extract text from PDF: No text could be extracted from PDF"]
    ELSE [ok |-> TRUE, text |-> JoinPages(PagesText(pdf_bytes.pages)), msg |-> ""]

----------------------------------------------------------------------------
(* rag_chain.py: analyze_resume_input; api.py: the two POST endpoints *)

Endpoints == {"extract_skills_endpoint", "evaluate_ats_endpoint"}

ApiEntries == {"analyze_resume_input"} \cup Endpoints

InputTypes == {"pdf", "text", "docx"}

ResumeInputs == Uploads \cup {TextInput(t) : t \in ResumeTexts} \cup {NoneInput}

\* the first statement of each of these entry points
FirstApiStatement(e) ==
    CASE e = "analyze_resume_input" -> "ari_input_type"
      [] e = "extract_skills_endpoint" -> "ep_read"
      [] e = "evaluate_ats_endpoint" -> "ep_job_description"

InitApi ==
    /\ pages_text = <<>>
    /\ chunk_size = DEFAULT_CHUNK_SIZE
    /\ chunk_overlap = DEFAULT_CHUNK_OVERLAP
    /\ i = 0
    /\ text = <<>>
    /\ start = 0
    /\ chunks = <<>>
    /\ pc = "idle"
    /\ entry \in ApiEntries
    /\ resume_text = <<>>
    /\ job_description \in
           (IF entry = "extract_skills_endpoint" THEN {<<>>} ELSE JobDescriptions)
    /\ api_key \in {"unset", "empty", "set"}
    /\ persist_directory = ArPersistDirectory
    /\ ppc = FirstApiStatement(entry)
    /\ calls = <<>>
    /\ outcome = "running"
    /\ error = [exc |-> "", msg |-> ""]
    /\ doc_chunks = <<>>
    /\ vectordb = NoIndex
    /\ disk \in StoredIndexes
    /\ context = <<>>
    /\ skills_reply = NoReply
    /\ ats_reply = NoReply
    /\ extracted_skills = Unset
    /\ ats_result = Unset
    /\ input_type \in (IF entry = "analyze_resume_input" THEN InputTypes ELSE {"pdf"})
    /\ resume_input \in (IF entry = "analyze_resume_input" THEN ResumeInputs ELSE Uploads)
    /\ skills_prompt = NoPrompt
    /\ ats_prompt = NoPrompt
    /\ requests = <<>>

\* analyze_resume_input: # Validate input_type
AriInputType ==
    /\ ppc = "ari_input_type"
    /\ IF input_type \notin {"pdf", "text"}
       THEN Raise("ValueError", "input_type must be 'pdf' or 'text'")
       ELSE Goto("ari_extract")
    /\ UNCHANGED <<calls, doc_chunks, vectordb, disk>>
    /\ UNCHANGED <<inputVars, llmVars, chunkerVars, requests>>

\* analyze_resume_input: # Extract resume text based on input type; then
\* analyze_resume(resume_text, job_description) is entered
AriExtract ==
    /\ ppc = "ari_extract"
    /\ IF input_type = "pdf"
       THEN IF resume_input.type # "bytes"
            THEN /\ Raise("ValueError", "For input_type='pdf', resume_input must be bytes")
                 /\ UNCHANGED <<calls, resume_text>>
            ELSE /\ calls' = Append(calls, "extract_text_from_pdf_bytes")
                 /\ IF extract_text_from_pdf_bytes(resume_input).ok
                    THEN /\ resume_text' = extract_text_from_pdf_bytes(resume_input).text
                         /\ Goto("ar_validate")
                    ELSE /\ Raise("ValueError", extract_text_from_pdf_bytes(resume_input).msg)
                         /\ UNCHANGED resume_text
       ELSE IF resume_input.type # "str"
            THEN /\ Raise("ValueError", "For input_type='text', resume_input must be string")
                 /\ UNCHANGED <<calls, resume_text>>
            ELSE /\ resume_text' = resume_input.text
                 /\ Goto("ar_validate")
                 /\ UNCHANGED calls
    /\ UNCHANGED <<entry, job_description, api_key, persist_directory, input_type,
                   resume_input>>
    /\ UNCHANGED <<doc_chunks, vectordb, disk>>
    /\ UNCHANGED <<llmVars, chunkerVars, requests>>

\* raise HTTPException(status_code=code, detail=detail)
RaiseHttp(code, detail) ==
    /\ outcome' = "raised"
    /\ error' = [exc |-> "HTTPException", msg |-> detail, code |-> code]

\* evaluate_ats_endpoint: # Validate job description (before the try block:
\* the exception goes straight to the exception handler)
EpJobDescription ==
    /\ ppc = "ep_job_description"
    /\ IF Blank(job_description)
       THEN /\ RaiseHttp(400, "Job description cannot be empty")
            /\ ppc' = "responded"
       ELSE Goto("ep_read")
    /\ UNCHANGED <<calls, doc_chunks, vectordb, disk>>
    /\ UNCHANGED <<inputVars, llmVars, chunkerVars, requests>>

\* both endpoints: pdf_bytes = await resume.read(); if not pdf_bytes: raise
EpRead ==
    /\ ppc = "ep_read"
    /\ IF resume_input.empty
       THEN /\ RaiseHttp(400, "Resume file is empty")
            /\ ppc' = "raised"
       ELSE Goto("ep_extract")
    /\ UNCHANGED <<calls, doc_chunks, vectordb, disk>>
    /\ UNCHANGED <<inputVars, llmVars, chunkerVars, requests>>

\* both endpoints: resume_text = extract_text_from_pdf_bytes(pdf_bytes); then
\* extract_skills_only / evaluate_ats_only is entered
EpExtract ==
    /\ ppc = "ep_extract"
    /\ calls' = Append(calls, "extract_text_from_pdf_bytes")
    /\ IF extract_text_from_pdf_bytes(resume_input).ok
       THEN /\ resume_text' = extract_text_from_pdf_bytes(resume_input).text
            /\ Goto("only_validate")
       ELSE /\ Raise("ValueError", extract_text_from_pdf_bytes(resume_input).msg)
            /\ UNCHANGED resume_text
    /\ UNCHANGED <<entry, job_description, api_key, persist_directory, input_type,
                   resume_input>>
    /\ UNCHANGED <<doc_chunks, vectordb, disk>>
    /\ UNCHANGED <<llmVars, chunkerVars, requests>>

\* extract_skills_only(resume_text) / evaluate_ats_only(resume_text,
\* job_description), which rag_chain.py does not define: by the orchestrator's
\* contract the resume text must not be empty, nor the job description on the
\* scoring path; then the text is chunked as a single page and an ephemeral
\* index is built over the chunks
OnlyValidate ==
    /\ ppc = "only_validate"
    /\ IF Blank(resume_text) THEN Raise("ValueError", "Resume text cannot be empty")
       ELSE IF entry = "evaluate_ats_endpoint" /\ Blank(job_description)
           THEN Raise("ValueError", "Job description cannot be empty")
       ELSE Goto("ar_make_chunks")
    /\ UNCHANGED <<calls, doc_chunks, vectordb, disk>>
    /\ UNCHANGED <<inputVars, llmVars, chunkerVars, requests>>

\* the status of the response to an exception that left the endpoint's try
\* block: a ValueError of the extraction or of the analysis is re-raised as
\* HTTPException(400), an HTTPException is re-raised as it is, any other
\* exception is re-raised as HTTPException(500)
ResponseStatus(exc) ==
    IF exc.exc = "HTTPException" THEN exc.code
    ELSE IF exc.exc = "ValueError" THEN 400
    ELSE 500

\* both endpoints: the except clauses, then http_exception_handler
EpExcept ==
    /\ entry \in Endpoints
    /\ ppc = "raised"
    /\ error' = [exc |-> "HTTPException", msg |-> error.msg, code |-> ResponseStatus(error)]
    /\ ppc' = "responded"
    /\ UNCHANGED <<outcome, calls, doc_chunks, vectordb, disk>>
    /\ UNCHANGED <<inputVars, llmVars, chunkerVars, requests>>

NextApi ==
    \/ AriInputType
    \/ AriExtract
    \/ EpJobDescription
    \/ EpRead
    \/ EpExtract
    \/ OnlyValidate
    \/ EpExcept
    \/ ArValidate
    \/ ArApiKey
    \/ ArMakeChunks
    \/ GetEmbeddingModel
    \/ FromDocuments
    \/ MakeDirs

SpecApi == InitApi /\ [][NextApi]_vars

----------------------------------------------------------------------------
(* Properties of make_chunks *)

\* the chunker's precondition 0 <= O < L
Pre == 0 <= chunk_overlap /\ chunk_overlap < chunk_size

Returned == pc = "done"

Stride == chunk_size - chunk_overlap

Trimmed(p) == Strip(pages_text[p])

\* the window starts s = j*(L-O), j = 0,1,2,..., below n
WindowStarts(n) == {s \in 0..(n - 1) : s % Stride = 0}

\* the chunks page p is to give: one per window start, in offset order
ExpectedPage(p) ==
    LET t == Trimmed(p)
        n == Len(t)
    IN  [k \in 1..Cardinality(WindowStarts(n)) |->
            LET s == (k - 1) * Stride
            IN  [page_content |-> SubSeq(t, s + 1, Min(s + chunk_size, n)),
                 page |-> p,
                 source |-> "Arpit_Negi_Resume.pdf"]]

RECURSIVE ExpectedUpTo(_)
ExpectedUpTo(p) == IF p = 0 THEN <<>> ELSE ExpectedUpTo(p - 1) \o ExpectedPage(p)

\* the texts of the chunks tagged with page p, in output order
PageChunkTexts(p) ==
    LET cs == SelectSeq(chunks, LAMBDA c : c.page = p)
    IN  [k \in 1..Len(cs) |-> cs[k].page_content]

\* C1: when 0 <= O < L, make_chunks returns, in page order and then offset
\* order, exactly one chunk per window start s = j*(L-O) < len(trimmed page):
\* its text is trimmed[s : s+L], its page tag the 1-based position of the page
\* in the input (skipped pages still count), its source the fixed label.
C1_OneChunkPerWindowStart ==
    (Pre /\ Returned) => chunks = ExpectedUpTo(Len(pages_text))

\* C1 witness: a returned run whose first page was skipped and whose second
\* page gave several overlapping windows, tagged page 2.
C1_Witness ==
    /\ Pre /\ Returned
    /\ chunk_overlap > 0
    /\ Len(pages_text) = 2
    /\ pages_text[1] = <<>>
    /\ Len(chunks) >= 2
    /\ chunks[1].page = 2
    /\ Len(chunks[1].page_content) = chunk_size

\* C2 (as claimed): the chunks of a page cover every character position of
\* the trimmed page, and each pair of adjacent chunks shares exactly O
\* characters (the last O of the earlier are the first O of the later),
\* except possibly the pair ending in the last, shorter chunk.
C2_CoverageAndExactOverlap ==
    (Pre /\ Returned) =>
        \A p \in 1..Len(pages_text) :
            LET t == Trimmed(p)
                cs == PageChunkTexts(p)
            IN  /\ \A pos \in 1..Len(t) :
                       \E k \in 1..Len(cs) :
                           /\ (k - 1) * Stride < pos
                           /\ pos <= (k - 1) * Stride + Len(cs[k])
                           /\ cs[k][pos - (k - 1) * Stride] = t[pos]
                /\ \A k \in 1..(Len(cs) - 1) :
                       ~(k + 1 = Len(cs) /\ Len(cs[k + 1]) < chunk_size) =>
                           /\ Len(cs[k]) >= chunk_overlap
                           /\ Len(cs[k + 1]) >= chunk_overlap
                           /\ SubSeq(cs[k], Len(cs[k]) - chunk_overlap + 1, Len(cs[k]))
                                  = SubSeq(cs[k + 1], 1, chunk_overlap)

\* C3 (as claimed): a page whose trimmed text is non-empty and shorter than L
\* gives exactly one chunk, the whole trimmed page; no chunk is longer than L.
C3_ShortPageOneChunk ==
    (Pre /\ Returned) =>
        /\ \A p \in 1..Len(pages_text) :
               (Len(Trimmed(p)) > 0 /\ Len(Trimmed(p)) < chunk_size) =>
                   PageChunkTexts(p) = <<Trimmed(p)>>
        /\ \A k \in 1..Len(chunks) : Len(chunks[k].page_content) <= chunk_size

\* C4 (as claimed): re-chunking, as a single page, any output chunk shorter
\* than L gives exactly one chunk with the identical text.
C4_RechunkIdempotent ==
    (Pre /\ Returned) =>
        \A k \in 1..Len(chunks) :
            Len(chunks[k].page_content) < chunk_size =>
                LET again == make_chunks(<<chunks[k].page_content>>, chunk_size, chunk_overlap)
                IN  /\ Len(again) = 1
                    /\ again[1].page_content = chunks[k].page_content

\* C5: no returned chunk has empty text; empty and whitespace-only pages give
\* no chunk, so a list of only such pages (or the empty list) gives none; and
\* under the precondition every window taken is non-empty.
C5_NoEmptyChunk ==
    /\ (Pre \/ Returned) =>
           \A k \in 1..Len(chunks) :
               /\ chunks[k].page_content # <<>>
               /\ Trimmed(chunks[k].page) # <<>>
    /\ (Returned /\ \A p \in 1..Len(pages_text) : Trimmed(p) = <<>>) => chunks = <<>>

\* C5 witness: a returned run over a whitespace-only page and a page with
\* text, which alone gave chunks.
C5_Witness ==
    /\ Pre /\ Returned
    /\ Len(pages_text) = 2
    /\ pages_text[1] # <<>>
    /\ Trimmed(1) = <<>>
    /\ Len(chunks) >= 2
    /\ \A k \in 1..Len(chunks) : chunks[k].page = 2

\* a page is left that the loop would enter with text to slide over
HasTextPage == \E p \in 1..Len(pages_text) : Trimmed(p) # <<>>

\* C6: when 0 <= O < L every run of make_chunks returns, the window start
\* growing strictly on each pass of the loop and no step failing; when
\* O >= L and some page has text the run never returns.
C6_Terminates ==
    /\ (Pre ~> Returned)
    /\ [][(Pre /\ chunks' # chunks) => start' > start]_vars
    /\ [](Pre => (Returned \/ ENABLED NextChunker))
    /\ []((~Pre /\ HasTextPage) => ~Returned)

\* C6 witness: a run that has returned after sliding several windows over a
\* page longer than the stride.
C6_Witness ==
    /\ Pre /\ Returned
    /\ Len(chunks) >= 3
    /\ Len(pages_text) = 1

----------------------------------------------------------------------------
(* Properties of the calls into the pipeline *)

\* a text that is empty or holds only whitespace
EmptyOrWhitespace(s) == \A k \in 1..Len(s) : s[k] \in {" ", "\n", "\t", "\r"}

ValidationMessages == {"Resume text cannot be empty", "Job description cannot be empty"}

\* C7: analyze_resume called with an empty or whitespace-only job
\* description or resume text raises a validation error before any chunking,
\* index building, embedding call or LLM call, whatever the credential is.
C7_ValidationBeforeWork ==
    (/\ entry = "analyze_resume"
     /\ EmptyOrWhitespace(resume_text) \/ EmptyOrWhitespace(job_description)) =>
        /\ calls = <<>>
        /\ ppc \in {"ar_validate", "raised"}
        /\ ppc = "raised" =>
               /\ outcome = "raised"
               /\ error.exc = "ValueError"
               /\ error.msg \in ValidationMessages

\* C7 witness: a whitespace-only job description, with a resume and a
\* credential that would let the call go on, has been rejected.
C7_Witness ==
    /\ entry = "analyze_resume"
    /\ ~EmptyOrWhitespace(resume_text)
    /\ job_description # <<>>
    /\ EmptyOrWhitespace(job_description)
    /\ api_key = "set"
    /\ outcome = "raised"
    /\ error.msg = "Job description cannot be empty"

\* the calls that leave the process or touch the index directory
ExternalCalls ==
    {"embed_documents", "makedirs", "save_local", "load_local", "retrieve",
     "llm_skills", "llm_ats"}

ConfigurationMessages ==
    {"GOOGLE_API_KEY not found in environment",
     "GOOGLE_API_KEY not found. Add it to your .env file.",
     "Google_API_KEY not set in .env"}

\* C8: on every entry point, with GOOGLE_API_KEY missing (unset or empty) no
\* embedding call, index load or LLM call is ever made and the call ends in a
\* configuration error (or, in analyze_resume, in the validation error that
\* comes before the credential is needed); with any credential, no external
\* call precedes the reading and check of the credential.
C8_CredentialBeforeExternalCalls ==
    /\ api_key \in {"unset", "empty"} =>
           /\ \A k \in 1..Len(calls) : calls[k] \notin ExternalCalls
           /\ outcome # "returned"
           /\ outcome = "raised" =>
                  /\ error.exc = "ValueError"
                  /\ \/ error.msg \in ConfigurationMessages
                     \/ entry = "analyze_resume" /\ error.msg \in ValidationMessages
           /\ ppc \in {"ar_validate", "ar_api_key", "get_embedding_model", "lr_api_key",
                       "raised"}
    /\ \A k \in 1..Len(calls) :
           calls[k] \in ExternalCalls => \E j \in 1..(k - 1) : calls[j] = "getenv"

\* C8 witness: build_rag_chain, with an index on disk to load, has raised the
\* configuration error without any call but the reading of the credential.
C8_Witness ==
    /\ entry = "build_rag_chain"
    /\ api_key = "empty"
    /\ disk.exists
    /\ outcome = "raised"
    /\ error.msg \in ConfigurationMessages
    /\ calls = <<"getenv">>

\* the forms of reply C9 speaks of: J itself, J in a fence, J in a fence
\* whose opening line carries the tag json
ClaimedForms == {"bare", "fence", "fence_lines", "fence_json"}

\* J is the text of a JSON object and holds no fence
IsObjectText(body) ==
    /\ json_loads(body).ok
    /\ json_loads(body).val.t = "obj"
    /\ Find(body, <<Backquote, Backquote, Backquote>>, 1) = 0

\* the object {"skills": ["Go"]}
SkillsGoObject ==
    [t |-> "obj",
     v |-> <<[k |-> <<"s", "k", "i", "l", "l", "s">>,
              v |-> [t |-> "arr", v |-> <<[t |-> "str", v |-> <<"G", "o">>]>>]]>>]

\* C9: for a JSON object text J without a fence, the parsing step gives the
\* object J denotes whether the reply is J, J in a fence, or J in a fence
\* tagged json (the skill step then returns that object's "skills" entry);
\* the fenced json reply holding {"skills":["Go"]} parses to that object.
C9_FenceStrippingSameObject ==
    /\ (skills_reply.form \in ClaimedForms /\ IsObjectText(skills_reply.body)) =>
           extracted_skills =
               DictGet(json_loads(skills_reply.body).val.v,
                       <<"s", "k", "i", "l", "l", "s">>, [t |-> "arr", v |-> <<>>])
    /\ (ats_reply.form \in ClaimedForms /\ IsObjectText(ats_reply.body)) =>
           ats_result = json_loads(ats_reply.body).val
    /\ (ats_reply.form \in ClaimedForms /\ ats_reply.body = ObjSkillsText) =>
           ats_result = SkillsGoObject
    /\ (skills_reply.form \in ClaimedForms /\ skills_reply.body = ObjSkillsText) =>
           extracted_skills = [t |-> "arr", v |-> <<[t |-> "str", v |-> <<"G", "o">>]>>]

\* C9 witness: both replies held {"skills":["Go"]}, one in a plain fence and
\* one in a fence tagged json, and the call returned.
C9_Witness ==
    /\ skills_reply.form = "fence"
    /\ skills_reply.body = ObjSkillsText
    /\ ats_reply.form = "fence_json"
    /\ ats_reply.body = ObjSkillsText
    /\ outcome = "returned"

\* the reply is not valid JSON once trimmed and freed of its fence
InvalidAfterCleaning(reply) == ~json_loads(CleanResponse(reply.text)).ok

\* {"error": "Invalid JSON response from LLM", "raw_output": raw}
ClaimedErrorObject(raw) ==
    [t |-> "obj",
     v |-> <<[k |-> <<"e", "r", "r", "o", "r">>,
              v |-> [t |-> "str",
                     v |-> <<"I", "n", "v", "a", "l", "i", "d", " ", "J", "S", "O", "N", " ",
                             "r", "e", "s", "p", "o", "n", "s", "e", " ", "f", "r", "o", "m",
                             " ", "L", "L", "M">>]],
             [k |-> <<"r", "a", "w", "_", "o", "u", "t", "p", "u", "t">>,
              v |-> [t |-> "str", v |-> raw]]>>]

----------------------------------------------------------------------------
(* Properties of the index builder's two modes *)

\* name is among the calls made so far
Called(name) == \E k \in 1..Len(calls) : calls[k] = name

\* the call runs build_vector_store with persist_directory=None and the index
\* has been built in memory
EphemeralIndexBuilt ==
    /\ entry \in {"build_vector_store", "analyze_resume"}
    /\ persist_directory = "None"
    /\ vectordb.exists

\* C11: in ephemeral mode (persist_directory=None, as analyze_resume calls
\* it) the builder returns the in-memory index over the chunks it was given
\* (build_vector_store returns it, analyze_resume goes on to retrieve from
\* it), no directory is created and nothing is saved; only with a directory
\* given is the index saved, and it is then the index returned.
C11_EphemeralBuildsInMemoryOnly ==
    /\ EphemeralIndexBuilt =>
           /\ vectordb.docs = doc_chunks
           /\ ~Called("makedirs")
           /\ ~Called("save_local")
           /\ ppc # "raised"
           /\ entry = "build_vector_store" => ppc \in {"makedirs", "returned"}
    /\ (entry = "build_vector_store" /\ persist_directory # "None" /\ outcome = "returned") =>
           /\ Called("save_local")
           /\ disk = vectordb
           /\ vectordb.docs = doc_chunks

----------------------------------------------------------------------------
(* Properties of requests running side by side *)

\* the index worker w's request holds is the one built from its own resume
OwnIndex(w) ==
    requests[w].vectordb =
        [exists |-> TRUE,
         docs |-> make_chunks(<<requests[w].resume_text>>, DEFAULT_CHUNK_SIZE,
                              DEFAULT_CHUNK_OVERLAP)]

\* C12: however the statements of analyze_resume requests interleave, the
\* only index a request ever holds (and so the only one it could search) is
\* the one it built from its own resume, a request starts with no index at
\* all, also on a worker that served a request before, no step of a request
\* changes the index directory, and a step of one request changes no other
\* request's chunks or index.
C12_RequestsShareNoIndex ==
    /\ [](\A w \in Workers :
              /\ requests[w].vectordb.exists => OwnIndex(w)
              /\ requests[w].ppc \in {"ar_validate", "ar_api_key", "ar_make_chunks"} =>
                     /\ requests[w].vectordb = NoIndex
                     /\ requests[w].chunks = <<>>)
    /\ [][disk' = disk]_vars
    /\ [][\A w, v \in Workers :
              (w # v /\ requests'[w] # requests[w]) => requests'[v] = requests[v]]_vars

\* C12 witness: two requests with different resumes each hold the index built
\* from their own resume at the same time, one of them on a worker that
\* served a request before, while the index directory holds a third index.
C12_Witness ==
    /\ requests # <<>>
    /\ \E w, v \in Workers :
           /\ w # v
           /\ OwnIndex(w)
           /\ OwnIndex(v)
           /\ requests[w].vectordb # requests[v].vectordb
           /\ requests[w].later
           /\ ~requests[v].later
           /\ disk.exists
           /\ disk # requests[w].vectordb
           /\ disk # requests[v].vectordb

----------------------------------------------------------------------------
(* Properties of the two POST endpoints *)

\* the request fails on its input: an empty or whitespace-only job
\* description (scoring endpoint), an empty upload, or a PDF that cannot be
\* parsed, has no pages or has no extractable text
InputFault ==
    \/ entry = "evaluate_ats_endpoint" /\ EmptyOrWhitespace(job_description)
    \/ resume_input.empty
    \/ ~resume_input.readable
    \/ resume_input.pages = <<>>
    \/ \A k \in 1..Len(resume_input.pages) : EmptyOrWhitespace(resume_input.pages[k])

\* C13: on both POST endpoints a failed request is answered 400 exactly when
\* it fails on its input (validation or extraction error) and 500 for every
\* other failure (missing credential, embedding or LLM failure, any other
\* exception); an HTTPException(400) raised inside the handler keeps its 400.
C13_Status400IffInputError ==
    /\ (entry \in Endpoints /\ ppc = "responded") =>
           /\ error.exc = "HTTPException"
           /\ error.code = (IF InputFault THEN 400 ELSE 500)
    /\ (entry \in Endpoints /\ ppc = "raised" /\ error.exc = "HTTPException") =>
           /\ error.code = 400
           /\ ResponseStatus(error) = 400

----------------------------------------------------------------------------
(* Properties of the order of the steps of one analysis *)

\* the steps of an analysis, in the order claimed
AnalysisSteps == <<"make_chunks", "embed_documents", "retrieve", "llm_skills", "llm_ats">>

\* the place of a call among the steps (0: not a step)
StepRank(name) ==
    IF \E n \in 1..Len(AnalysisSteps) : AnalysisSteps[n] = name
    THEN CHOOSE n \in 1..Len(AnalysisSteps) : AnalysisSteps[n] = name
    ELSE 0

\* how many times name was called
TimesCalled(name) == Cardinality({k \in 1..Len(calls) : calls[k] = name})

AnalysisEntries == {"analyze_resume", "build_rag_chain"}

\* C14: in one analysis (analyze_resume, rag_ask of build_rag_chain) the
\* steps are taken in the order chunk, build index, retrieve, skill call,
\* scoring call, assembly, none of them twice; each step is taken only after
\* the one before it (rag_ask starts at retrieve, on the loaded index); the
\* scoring call is issued only once the skill call has returned its result,
\* its prompt is built from that result, the job description and the context
\* the skill prompt was built from; a call that returns has issued each of
\* the two LLM calls exactly once.
C14_StepsInOrderOnce ==
    entry \in AnalysisEntries =>
        /\ \A j, k \in 1..Len(calls) :
               (j < k /\ StepRank(calls[j]) > 0 /\ StepRank(calls[k]) > 0) =>
                   StepRank(calls[j]) < StepRank(calls[k])
        /\ Called("embed_documents") => Called("make_chunks")
        /\ (Called("retrieve") /\ entry = "analyze_resume") => Called("embed_documents")
        /\ (Called("retrieve") /\ entry = "build_rag_chain") => Called("load_local")
        /\ Called("llm_skills") =>
               /\ Called("retrieve")
               /\ skills_prompt = SkillsPrompt(context)
        /\ ~Called("llm_skills") => (skills_prompt = NoPrompt /\ extracted_skills = Unset)
        /\ Called("llm_ats") =>
               /\ Called("llm_skills")
               /\ extracted_skills # Unset
               /\ extracted_skills = SkillsResult(skills_reply.text).value
               /\ ats_prompt.sent
               /\ ats_prompt.skills = extracted_skills
               /\ ats_prompt.context = skills_prompt.context
               /\ ats_prompt.context = context
               /\ ats_prompt.job_description = job_description
        /\ ~Called("llm_ats") => ats_prompt = NoPrompt
        /\ ppc \in {"assemble", "returned"} =>
               /\ TimesCalled("retrieve") = 1
               /\ TimesCalled("llm_skills") = 1
               /\ TimesCalled("llm_ats") = 1
               /\ calls[Len(calls)] = "llm_ats"
               /\ ats_result = AtsResult(ats_reply.text).value

\* C14 witness: an analysis has returned after the retrieval, the skill call
\* that gave the list ["Go"] and the scoring call whose prompt carried it, in
\* that order.
C14_Witness ==
    /\ entry \in AnalysisEntries
    /\ outcome = "returned"
    /\ context # <<>>
    /\ extracted_skills = [t |-> "arr", v |-> <<[t |-> "str", v |-> <<"G", "o">>]>>]
    /\ ats_prompt.skills = extracted_skills
    /\ SubSeq(calls, Len(calls) - 2, Len(calls)) = <<"retrieve", "llm_skills", "llm_ats">>

----------------------------------------------------------------------------
(* Properties of analyze_resume_input *)

\* analyze_resume_input is given an invalid input: an input_type that is
\* neither 'pdf' nor 'text', a resume_input of the wrong type for its tag, an
\* empty resume text, or an empty or whitespace-only job description
InvalidInput ==
    \/ input_type \notin {"pdf", "text"}
    \/ input_type = "pdf" /\ resume_input.type # "bytes"
    \/ input_type = "text" /\ resume_input.type # "str"
    \/ input_type = "text" /\ resume_input.type = "str" /\ EmptyOrWhitespace(resume_input.text)
    \/ EmptyOrWhitespace(job_description)

\* C15: analyze_resume_input rejects every invalid input with a validation
\* error and no work done before the rejection: no PDF text extraction, no
\* chunking, no credential read, no embedding and no LLM call, in particular
\* for input_type='pdf' with an empty job description.
C15_InvalidInputNoPartialWork ==
    (entry = "analyze_resume_input" /\ InvalidInput) =>
        /\ calls = <<>>
        /\ ppc \in {"ari_input_type", "ari_extract", "ar_validate", "raised"}
        /\ ppc = "raised" => error.exc = "ValueError"

----------------------------------------------------------------------------
(* Properties of the two parsing steps on any reply *)

\* C16: whatever text the LLM replies, also valid JSON that is no object (an
\* array, a number, a string, null) and a reply that holds only a fence,
\* neither _extract_skills_from_resume nor _evaluate_ats raises: the skill
\* step returns a list and the scoring step returns a dict.
C16_ParsingStepsNeverRaise ==
    /\ skills_reply # NoReply =>
           /\ ~(outcome = "raised" /\ error.exc \in {"AttributeError", "TypeError"})
           /\ extracted_skills.t = "arr"
    /\ ats_reply # NoReply =>
           /\ outcome # "raised"
           /\ ats_result.t = "obj"
====
